---- MODULE Spec2Model ----
(***************************************************************************)
(* Model of the Amazon Q follow-up interaction handler                     *)
(* (src/amazonq/webview/ui/followUps/handler.ts) and of the "create        *)
(* workspace" webview controller with its panel singleton                  *)
(* (src/unnamed/part_001).                                                 *)
(*                                                                         *)
(* The handlers of handler.ts are synchronous: each one runs to completion *)
(* as one step.  Every step records, in order, the collaborator calls it   *)
(* makes (calls) and applies them to the collaborators' state.  SpecSteps  *)
(* runs the same handlers call by call under the event loop.               *)
(***************************************************************************)
EXTENDS Integers, Sequences, FiniteSets, TLC

VARIABLES
    tabs,       \* tabsStorage: registered tab id -> [type, status]
    ui,         \* mynahUI store: open tab id -> [loading, chat]
    calls,      \* collaborator calls of the last handler run, in call order
    lastOp,     \* the last handler run: its name and arguments
    stack,      \* the handler on the call stack and the calls it has left
    suspendedFrames,    \* the handlers suspended at an await
    activePanel,    \* part_001 line 211: the singleton panel, or NoPanel
    subscriptions,  \* part_001 line 212: undefined, or the list of its
                    \* onDidDispose registrations
    panelState,     \* per Panel instance: "unbuilt", "created" (constructed,
                    \* never shown), "open" (its webview exists), "disposed"
    listeners,      \* per Panel instance: onDidDispose callbacks registered
                    \* on its webview and not yet disposed of
    showPc,         \* per showCreateWorkspace call: where it stands
    showPanel,      \* per showCreateWorkspace call: the instance it shows
    subPc,          \* the await a submission is suspended at
    subSettings,    \* submit: its argument settings
    subSource,      \* submit: its argument source
    subLocals,      \* the local constants of cloneRepository and submit
    subLog,         \* collaborator calls of the submission and how they settled
    subResult,      \* how submit settled
    editPc,         \* editSetting: "idle", "prompting" (at its await), "done"
    editArgs,       \* editSetting: its arguments settings and key
    editPrompter,   \* editSetting: the prompter it made and its recentItem
    editResponse,   \* editSetting: what prompter.prompt() resolved with
    editResult      \* editSetting: the settings it returned

followUpVars == <<tabs, ui, calls, lastOp, stack, suspendedFrames>>

panelVars == <<activePanel, subscriptions, panelState, listeners, showPc, showPanel>>

submitVars == <<subPc, subSettings, subSource, subLocals, subLog, subResult>>

editVars == <<editPc, editArgs, editPrompter, editResponse, editResult>>

vars == <<tabs, ui, calls, lastOp, stack, suspendedFrames,
          activePanel, subscriptions, panelState, listeners, showPc, showPanel,
          subPc, subSettings, subSource, subLocals, subLog, subResult,
          editPc, editArgs, editPrompter, editResponse, editResult>>

(***************************************************************************)
(* Bounds                                                                  *)
(***************************************************************************)
MaxTabs == 2            \* capacity of the chat UI (tabs it can hold)
MaxChatItems == 2       \* chat items kept per tab
MaxPanels == 2          \* Panel instances constructed in one run
MaxShowCalls == 3       \* showCreateWorkspace calls in one run

(***************************************************************************)
(* Values                                                                  *)
(***************************************************************************)
Undefined == "undefined"        \* the JavaScript value undefined
EmptyTabId == 0                 \* the tab id '' passed to create a tab
NoNewTab == -1                  \* updateStore('') returning undefined

TabIds == 1..MaxTabs
MessageIds == {"m1"}
AuthFollowUpTypes == {"full-auth", "re-auth"}
FollowUpTypes == AuthFollowUpTypes \cup {Undefined, "help"}
Prompts == {Undefined, "", "explain"}
FollowUps == [type : FollowUpTypes, prompt : Prompts]
WelcomeFollowupTypes == {"assign-code-task", "continue-to-chat", "other"}
TabTypes == {"unknown", "cwc", "wb"}

Call(fn, tab, arg) == [fn |-> fn, tab |-> tab, arg |-> arg]

NoArg == [none |-> TRUE]

(***************************************************************************)
(* Collaborators.  Their code is not part of the sources; they are         *)
(* modelled by their contract.                                             *)
(***************************************************************************)

\* tabsStorage.addTab: registers the tab record under its id.
AddTab(t, tab) ==
    IF tab.id \in DOMAIN t THEN t
    ELSE [id \in DOMAIN t \cup {tab.id} |->
            IF id = tab.id THEN [type |-> tab.type, status |-> tab.status]
            ELSE t[id]]

\* tabsStorage.updateTabTypeFromUnknown: retags a registered tab whose type
\* is 'unknown'; any other tab keeps its type.
UpdateTabTypeFromUnknown(t, tabID, tabType) ==
    IF tabID \in DOMAIN t /\ t[tabID].type = "unknown"
    THEN [t EXCEPT ![tabID].type = tabType]
    ELSE t

\* tabsStorage.updateTabStatus: sets the status of a registered tab.
UpdateTabStatus(t, tabID, status) ==
    IF tabID \in DOMAIN t THEN [t EXCEPT ![tabID].status = status] ELSE t

\* mynahUI.updateStore(tabID, data): with tabID = '' a tab is created under
\* the id the call returns (nothing is created when it returns undefined);
\* otherwise the data is merged into the tab's store.
UpdateStore(u, tabID, data, newTabId) ==
    IF tabID = EmptyTabId
    THEN IF newTabId = NoNewTab THEN u
         ELSE [id \in DOMAIN u \cup {newTabId} |->
                 IF id = newTabId THEN [loading |-> FALSE, chat |-> <<>>]
                 ELSE u[id]]
    ELSE IF tabID \in DOMAIN u
         THEN [u EXCEPT ![tabID].loading = data.loadingChat]
         ELSE u

\* mynahUI.addChatItem: appends the item to the tab's chat.
AddChatItem(u, tabID, item) ==
    IF tabID \in DOMAIN u
    THEN [u EXCEPT ![tabID].chat = Append(@, item)]
    ELSE u

\* The state of the collaborators after one call.  The connector's methods,
\* mynahUI.notify and tabsStorage.resetTabTimer change nothing modelled here.
ApplyCall(st, c, newTabId) ==
    CASE c.fn = "mynahUI.updateStore" ->
            [st EXCEPT !.ui = UpdateStore(st.ui, c.tab, c.arg, newTabId)]
      [] c.fn = "mynahUI.addChatItem" ->
            [st EXCEPT !.ui = AddChatItem(st.ui, c.tab, c.arg)]
      [] c.fn = "tabsStorage.addTab" ->
            [st EXCEPT !.tabs = AddTab(st.tabs, c.arg)]
      [] c.fn = "tabsStorage.updateTabTypeFromUnknown" ->
            [st EXCEPT !.tabs = UpdateTabTypeFromUnknown(st.tabs, c.tab, c.arg.type)]
      [] c.fn = "tabsStorage.updateTabStatus" ->
            [st EXCEPT !.tabs = UpdateTabStatus(st.tabs, c.tab, c.arg.status)]
      [] OTHER -> st

RECURSIVE ApplyCalls(_, _, _)
ApplyCalls(st, cs, newTabId) ==
    IF cs = <<>> THEN st
    ELSE ApplyCalls(ApplyCall(st, Head(cs), newTabId), Tail(cs), newTabId)

(***************************************************************************)
(* FollowUpInteractionHandler                                              *)
(***************************************************************************)

\* Mutant: the empty ANSWER_STREAM placeholder is not appended.
PromptBranchCalls_NoPlaceholder(tabID, followUp) ==
    << Call("mynahUI.updateStore", tabID,
            [loadingChat |-> TRUE, promptInputDisabledState |-> TRUE]),
       Call("mynahUI.addChatItem", tabID,
            [type |-> "PROMPT", body |-> followUp.prompt]),
       Call("tabsStorage.updateTabStatus", tabID, [status |-> "busy"]),
       Call("tabsStorage.resetTabTimer", tabID, NoArg) >>

\* The calls of the prompt branch of onFollowUpClicked, in order.
PromptBranchCalls(tabID, followUp) ==
    << Call("mynahUI.updateStore", tabID,
            [loadingChat |-> TRUE, promptInputDisabledState |-> TRUE]),
       Call("mynahUI.addChatItem", tabID,
            [type |-> "PROMPT", body |-> followUp.prompt]),
       Call("mynahUI.addChatItem", tabID,
            [type |-> "ANSWER_STREAM", body |-> ""]),
       Call("tabsStorage.updateTabStatus", tabID, [status |-> "busy"]),
       Call("tabsStorage.resetTabTimer", tabID, NoArg) >>

\* Mutant: the authentication branch does not return.
OnFollowUpClickedCalls_NoReturn(tabID, messageId, followUp) ==
    (IF followUp.type # Undefined /\ followUp.type \in {"full-auth", "re-auth"}
     THEN << Call("connector.onAuthFollowUpClicked", tabID, [type |-> followUp.type]) >>
     ELSE << >>)
    \o (IF followUp.prompt # Undefined
        THEN PromptBranchCalls(tabID, followUp)
        ELSE << >>)
    \o << Call("connector.onFollowUpClicked", tabID,
               [messageId |-> messageId, followUp |-> followUp]) >>

\* Mutant: the action is forwarded inside the prompt branch only.
OnFollowUpClickedCalls_ForwardInBranch(tabID, messageId, followUp) ==
    IF followUp.type # Undefined /\ followUp.type \in {"full-auth", "re-auth"}
    THEN << Call("connector.onAuthFollowUpClicked", tabID, [type |-> followUp.type]) >>
    ELSE IF followUp.prompt # Undefined
         THEN PromptBranchCalls(tabID, followUp)
              \o << Call("connector.onFollowUpClicked", tabID,
                         [messageId |-> messageId, followUp |-> followUp]) >>
         ELSE << >>

\* The calls onFollowUpClicked makes, in order.
OnFollowUpClickedCalls(tabID, messageId, followUp) ==
    IF followUp.type # Undefined /\ followUp.type \in {"full-auth", "re-auth"}
    THEN << Call("connector.onAuthFollowUpClicked", tabID, [type |-> followUp.type]) >>
    ELSE (IF followUp.prompt # Undefined
          THEN PromptBranchCalls(tabID, followUp)
          ELSE << >>)
         \o << Call("connector.onFollowUpClicked", tabID,
                    [messageId |-> messageId, followUp |-> followUp]) >>

\* Mutant: the backend is told that the originating tab was opened.
AssignCodeTaskCalls_OpenOriginating(tabID, newTabId) ==
    << Call("tabsStorage.addTab", newTabId,
            [id |-> newTabId, status |-> "busy", type |-> "unknown",
             isSelected |-> TRUE, openInteractionType |-> "click"]),
       Call("tabsStorage.updateTabTypeFromUnknown", tabID, [type |-> "cwc"]),
       Call("connector.onUpdateTabType", tabID, NoArg),
       Call("tabsStorage.updateTabTypeFromUnknown", newTabId, [type |-> "wb"]),
       Call("connector.onUpdateTabType", newTabId, NoArg),
       Call("connector.onKnownTabOpen", tabID, NoArg) >>

\* Mutant: the backend is told of the new tab's type before the retag.
AssignCodeTaskCalls_NotifyFirst(tabID, newTabId) ==
    << Call("tabsStorage.addTab", newTabId,
            [id |-> newTabId, status |-> "busy", type |-> "unknown",
             isSelected |-> TRUE, openInteractionType |-> "click"]),
       Call("tabsStorage.updateTabTypeFromUnknown", tabID, [type |-> "cwc"]),
       Call("connector.onUpdateTabType", tabID, NoArg),
       Call("connector.onUpdateTabType", newTabId, NoArg),
       Call("tabsStorage.updateTabTypeFromUnknown", newTabId, [type |-> "wb"]),
       Call("connector.onKnownTabOpen", newTabId, NoArg) >>

\* The calls of the 'assign-code-task' branch after the tab was created.
AssignCodeTaskCalls(tabID, newTabId) ==
    << Call("tabsStorage.addTab", newTabId,
            [id |-> newTabId, status |-> "busy", type |-> "unknown",
             isSelected |-> TRUE, openInteractionType |-> "click"]),
       Call("tabsStorage.updateTabTypeFromUnknown", tabID, [type |-> "cwc"]),
       Call("connector.onUpdateTabType", tabID, NoArg),
       Call("tabsStorage.updateTabTypeFromUnknown", newTabId, [type |-> "wb"]),
       Call("connector.onUpdateTabType", newTabId, NoArg),
       Call("connector.onKnownTabOpen", newTabId, NoArg) >>

\* Mutant: the result of mynahUI.updateStore('') is not tested.
OnWelcomeFollowUpClickedCalls_NoCheck(tabID, welcomeFollowUpType, newTabId) ==
    IF welcomeFollowUpType = "assign-code-task"
    THEN << Call("mynahUI.updateStore", EmptyTabId, [tabData |-> "wb"]) >>
         \o AssignCodeTaskCalls(tabID, newTabId)
    ELSE IF welcomeFollowUpType = "continue-to-chat"
    THEN << Call("mynahUI.addChatItem", tabID,
                 [type |-> "ANSWER", body |-> "Ok, please write your question below."]),
            Call("tabsStorage.updateTabTypeFromUnknown", tabID, [type |-> "cwc"]),
            Call("connector.onUpdateTabType", tabID, NoArg) >>
    ELSE << >>

\* Mutant: 'continue-to-chat' also tells the backend that the tab was opened.
OnWelcomeFollowUpClickedCalls_ChatOpensTab(tabID, welcomeFollowUpType, newTabId) ==
    IF welcomeFollowUpType = "assign-code-task"
    THEN << Call("mynahUI.updateStore", EmptyTabId, [tabData |-> "wb"]) >>
         \o (IF newTabId # NoNewTab
             THEN AssignCodeTaskCalls(tabID, newTabId)
             ELSE << Call("mynahUI.notify", EmptyTabId,
                          [content |-> "noMoreTabsTooltip", type |-> "WARNING"]) >>)
    ELSE IF welcomeFollowUpType = "continue-to-chat"
    THEN << Call("mynahUI.addChatItem", tabID,
                 [type |-> "ANSWER", body |-> "Ok, please write your question below."]),
            Call("tabsStorage.updateTabTypeFromUnknown", tabID, [type |-> "cwc"]),
            Call("connector.onUpdateTabType", tabID, NoArg),
            Call("connector.onKnownTabOpen", tabID, NoArg) >>
    ELSE << >>

\* Mutant: an unmatched type is handled as 'continue-to-chat'.
OnWelcomeFollowUpClickedCalls_DefaultChat(tabID, welcomeFollowUpType, newTabId) ==
    IF welcomeFollowUpType = "assign-code-task"
    THEN << Call("mynahUI.updateStore", EmptyTabId, [tabData |-> "wb"]) >>
         \o (IF newTabId # NoNewTab
             THEN AssignCodeTaskCalls(tabID, newTabId)
             ELSE << Call("mynahUI.notify", EmptyTabId,
                          [content |-> "noMoreTabsTooltip", type |-> "WARNING"]) >>)
    ELSE << Call("mynahUI.addChatItem", tabID,
                 [type |-> "ANSWER", body |-> "Ok, please write your question below."]),
            Call("tabsStorage.updateTabTypeFromUnknown", tabID, [type |-> "cwc"]),
            Call("connector.onUpdateTabType", tabID, NoArg) >>

\* The calls onWelcomeFollowUpClicked makes, in order; newTabId is what
\* mynahUI.updateStore('') returns (read only by 'assign-code-task').
OnWelcomeFollowUpClickedCalls(tabID, welcomeFollowUpType, newTabId) ==
    IF welcomeFollowUpType = "assign-code-task"
    THEN << Call("mynahUI.updateStore", EmptyTabId, [tabData |-> "wb"]) >>
         \o (IF newTabId # NoNewTab
             THEN AssignCodeTaskCalls(tabID, newTabId)
             ELSE << Call("mynahUI.notify", EmptyTabId,
                          [content |-> "noMoreTabsTooltip", type |-> "WARNING"]) >>)
    ELSE IF welcomeFollowUpType = "continue-to-chat"
    THEN << Call("mynahUI.addChatItem", tabID,
                 [type |-> "ANSWER", body |-> "Ok, please write your question below."]),
            Call("tabsStorage.updateTabTypeFromUnknown", tabID, [type |-> "cwc"]),
            Call("connector.onUpdateTabType", tabID, NoArg) >>
    ELSE << >>

\* The chat items a run appends to a tab (bounds the chat of the model).
Appended(cs, tabID) ==
    Cardinality({i \in 1..Len(cs) :
                    cs[i].fn = "mynahUI.addChatItem" /\ cs[i].tab = tabID})

Run(op, cs, newTabId) ==
    LET st == ApplyCalls([tabs |-> tabs, ui |-> ui], cs, newTabId) IN
    /\ tabs' = st.tabs
    /\ ui' = st.ui
    /\ calls' = cs
    /\ lastOp' = op
    /\ UNCHANGED <<stack, suspendedFrames, panelVars, submitVars, editVars>>

OnFollowUpClicked(tabID, messageId, followUp) ==
    LET cs == OnFollowUpClickedCalls(tabID, messageId, followUp) IN
    /\ Len(ui[tabID].chat) + Appended(cs, tabID) <= MaxChatItems
    /\ Run([op |-> "onFollowUpClicked", tabID |-> tabID, messageId |-> messageId,
            followUp |-> followUp, welcomeFollowUpType |-> Undefined,
            newTabId |-> NoNewTab], cs, NoNewTab)

\* mynahUI.updateStore('') returns the id of the tab it created, or
\* undefined when the UI holds no more tabs.
NewTabIds == IF Cardinality(DOMAIN ui) < MaxTabs
             THEN {CHOOSE id \in TabIds : id \notin DOMAIN ui /\
                        \A j \in TabIds : j < id => j \in DOMAIN ui}
             ELSE {}

OnWelcomeFollowUpClicked(tabID, welcomeFollowUpType, newTabId) ==
    LET cs == OnWelcomeFollowUpClickedCalls(tabID, welcomeFollowUpType, newTabId) IN
    /\ Len(ui[tabID].chat) + Appended(cs, tabID) <= MaxChatItems
    /\ Run([op |-> "onWelcomeFollowUpClicked", tabID |-> tabID, messageId |-> Undefined,
            followUp |-> [type |-> Undefined, prompt |-> Undefined],
            welcomeFollowUpType |-> welcomeFollowUpType,
            newTabId |-> IF welcomeFollowUpType = "assign-code-task"
                         THEN newTabId ELSE NoNewTab], cs, newTabId)

NoOp == [op |-> "none", tabID |-> EmptyTabId, messageId |-> Undefined,
         followUp |-> [type |-> Undefined, prompt |-> Undefined],
         welcomeFollowUpType |-> Undefined, newTabId |-> NoNewTab]

\* A handler invocation: its arguments, the calls it has left to make, what
\* mynahUI.updateStore('') returns to it, and the calls it has made.
Frame(op, cs, newTabId) ==
    [op |-> op, rest |-> cs, newTabId |-> newTabId, done |-> 0]

NoFrame == Frame(NoOp, << >>, NoNewTab)

InitFollowUp ==
    /\ \E ty \in TabTypes : tabs = [id \in {1} |-> [type |-> ty, status |-> "free"]]
    /\ ui = [id \in {1} |-> [loading |-> FALSE, chat |-> <<>>]]
    /\ calls = <<>>
    /\ lastOp = NoOp
    /\ stack = NoFrame
    /\ suspendedFrames = {}

FollowUpClick ==
    \E tabID \in DOMAIN ui, messageId \in MessageIds, followUp \in FollowUps :
        OnFollowUpClicked(tabID, messageId, followUp)

WelcomeFollowUpClick ==
    \E tabID \in DOMAIN ui, w \in WelcomeFollowupTypes :
        \E newTabId \in (IF w = "assign-code-task"
                         THEN NewTabIds \cup {NoNewTab} ELSE {NoNewTab}) :
            OnWelcomeFollowUpClicked(tabID, w, newTabId)

NextFollowUp == FollowUpClick \/ WelcomeFollowUpClick

(***************************************************************************)
(* The handlers call by call.  The webview runs one handler at a time: the *)
(* event loop starts the handler of the next UI event, or resumes a        *)
(* suspended one, only when the call stack is empty, and a handler leaves  *)
(* the stack when it returns or reaches an await.                          *)
(***************************************************************************)

\* Mutant: the handler awaits mynahUI.updateStore.
SuspendsAfter_UpdateStore(op, c) == c.fn = "mynahUI.updateStore"

\* The handler is suspended after call c: no call of onFollowUpClicked and
\* onWelcomeFollowUpClicked is awaited.
SuspendsAfter(op, c) == FALSE

\* The UI events the event loop can deliver.
ClickEvents ==
    {Frame([op |-> "onFollowUpClicked", tabID |-> tabID, messageId |-> messageId,
            followUp |-> followUp, welcomeFollowUpType |-> Undefined,
            newTabId |-> NoNewTab],
           OnFollowUpClickedCalls(tabID, messageId, followUp), NoNewTab) :
        tabID \in DOMAIN ui, messageId \in MessageIds, followUp \in FollowUps}
    \cup
    UNION {{Frame([op |-> "onWelcomeFollowUpClicked", tabID |-> tabID,
                   messageId |-> Undefined,
                   followUp |-> [type |-> Undefined, prompt |-> Undefined],
                   welcomeFollowUpType |-> w,
                   newTabId |-> IF w = "assign-code-task" THEN newTabId ELSE NoNewTab],
                  OnWelcomeFollowUpClickedCalls(tabID, w, newTabId), newTabId) :
                newTabId \in (IF w = "assign-code-task"
                              THEN NewTabIds \cup {NoNewTab} ELSE {NoNewTab})} :
            tabID \in DOMAIN ui, w \in WelcomeFollowupTypes}

\* The event loop puts a handler on the empty stack.
RunHandler(frame) ==
    /\ stack.rest = << >>
    /\ frame.done = 0 =>
            Len(ui[frame.op.tabID].chat) + Appended(frame.rest, frame.op.tabID)
                <= MaxChatItems
    /\ stack' = frame
    /\ suspendedFrames' = suspendedFrames \ {frame}
    /\ lastOp' = frame.op
    /\ calls' = IF frame.done = 0 THEN << >> ELSE calls
    /\ UNCHANGED <<tabs, ui, panelVars, submitVars, editVars>>

\* The handler on the stack makes its next call.
MakeCall ==
    /\ stack.rest # << >>
    /\ LET c == Head(stack.rest)
           st == ApplyCall([tabs |-> tabs, ui |-> ui], c, stack.newTabId)
           next == [stack EXCEPT !.rest = Tail(@), !.done = @ + 1]
       IN /\ tabs' = st.tabs
          /\ ui' = st.ui
          /\ calls' = Append(calls, c)
          /\ IF SuspendsAfter(stack.op, c) /\ next.rest # << >>
             THEN /\ suspendedFrames' = suspendedFrames \cup {next}
                  /\ stack' = NoFrame
             ELSE /\ stack' = next
                  /\ UNCHANGED suspendedFrames
    /\ UNCHANGED <<lastOp, panelVars, submitVars, editVars>>

EventLoopTurn == \E frame \in ClickEvents \cup suspendedFrames : RunHandler(frame)

NextSteps == EventLoopTurn \/ MakeCall

(***************************************************************************)
(* The panel singleton of the create-workspace wizard (showCreateWorkspace)*)
(*                                                                         *)
(* showCreateWorkspace is an async function with one suspension point, the *)
(* await of activePanel.show.  A call is two steps: ShowBegin runs up to   *)
(* the await, ShowResume runs the rest.  Other calls and the disposal of   *)
(* a webview can take place between the two.                               *)
(***************************************************************************)
NoPanel == 0                    \* activePanel === undefined

\* subscriptions === undefined, and subscriptions = [ ... ]: the list holds,
\* per registration, the instance on whose webview it was made.
NoSubscriptions == [defined |-> FALSE, list |-> << >>]

Subscriptions(list) == [defined |-> TRUE, list |-> list]

PanelIds == 1..MaxPanels
ShowCallIds == 1..MaxShowCalls

\* new Panel(ctx, client): the next instance not constructed so far.
NewPanel == CHOOSE p \in PanelIds :
                /\ panelState[p] = "unbuilt"
                /\ \A q \in PanelIds : q < p => panelState[q] # "unbuilt"

\* Mutant: a Panel is constructed on every call.
ActivePanelOrNew_AlwaysNew(ap, fresh) == fresh

\* activePanel ??= new Panel(ctx, client)
ActivePanelOrNew(ap, fresh) == IF ap # NoPanel THEN ap ELSE fresh

\* Panel.show: creates the webview of an instance shown for the first time,
\* reveals it otherwise.
Show(ps, p) == IF ps[p] = "created" THEN [ps EXCEPT ![p] = "open"] ELSE ps

\* Lines 215-216, up to the await.
ShowBegin(c) ==
    /\ showPc[c] = "idle"
    /\ \A d \in ShowCallIds : d < c => showPc[d] # "idle"
    /\ activePanel # NoPanel \/ \E p \in PanelIds : panelState[p] = "unbuilt"
    /\ LET fresh == IF \E p \in PanelIds : panelState[p] = "unbuilt"
                    THEN NewPanel ELSE NoPanel
           ap == ActivePanelOrNew(activePanel, fresh)
           ps == IF ap # activePanel
                 THEN [panelState EXCEPT ![ap] = "created"] ELSE panelState
       IN /\ ap # NoPanel
          /\ activePanel' = ap
          /\ panelState' = Show(ps, ap)
          /\ showPanel' = [showPanel EXCEPT ![c] = ap]
          /\ showPc' = [showPc EXCEPT ![c] = "awaiting"]
    /\ UNCHANGED <<subscriptions, listeners>>
    /\ UNCHANGED <<followUpVars, submitVars, editVars>>

\* Lines 216-229, after the await: show resolved with the webview of the
\* instance; the onDidDispose callback is registered when subscriptions is
\* not set.
ShowResume(c) ==
    /\ showPc[c] = "awaiting"
    /\ LET webview == showPanel[c] IN
       IF ~subscriptions.defined
       THEN /\ subscriptions' = Subscriptions(<< webview >>)
            /\ listeners' = [listeners EXCEPT ![webview] = @ + 1]
       ELSE UNCHANGED <<subscriptions, listeners>>
    /\ showPc' = [showPc EXCEPT ![c] = "done"]
    /\ UNCHANGED <<activePanel, panelState, showPanel>>
    /\ UNCHANGED <<followUpVars, submitVars, editVars>>

\* activePanel.show rejects: revealing a disposed webview fails, and the
\* call ends there.
ShowReject(c) ==
    /\ showPc[c] = "awaiting"
    /\ panelState[showPanel[c]] = "disposed"
    /\ showPc' = [showPc EXCEPT ![c] = "failed"]
    /\ UNCHANGED <<activePanel, subscriptions, panelState, listeners, showPanel>>
    /\ UNCHANGED <<followUpVars, submitVars, editVars>>

\* The registrations held in subs are disposed of.
DisposeSubscriptions(ls, subs) ==
    [p \in PanelIds |->
        LET n == Cardinality({i \in 1..Len(subs.list) : subs.list[i] = p})
        IN IF ls[p] >= n THEN ls[p] - n ELSE 0]

\* The webview of instance p is disposed (closed by the user, or by
\* CawsCreateWebview.close): the onDidDispose callbacks registered on it
\* run (lines 223-227).
Dispose(p) ==
    /\ panelState[p] = "open"
    /\ panelState' = [panelState EXCEPT ![p] = "disposed"]
    /\ IF listeners[p] > 0
       THEN /\ listeners' = [DisposeSubscriptions(listeners, subscriptions)
                                EXCEPT ![p] = 0]
            /\ activePanel' = NoPanel
            /\ subscriptions' = NoSubscriptions
       ELSE UNCHANGED <<activePanel, subscriptions, listeners>>
    /\ UNCHANGED <<showPc, showPanel>>
    /\ UNCHANGED <<followUpVars, submitVars, editVars>>

InitPanel ==
    /\ activePanel = NoPanel
    /\ subscriptions = NoSubscriptions
    /\ panelState = [p \in PanelIds |-> "unbuilt"]
    /\ listeners = [p \in PanelIds |-> 0]
    /\ showPc = [c \in ShowCallIds |-> "idle"]
    /\ showPanel = [c \in ShowCallIds |-> NoPanel]

ShowCreateWorkspaceBegin == \E c \in ShowCallIds : ShowBegin(c)

ShowCreateWorkspaceResume == \E c \in ShowCallIds : ShowResume(c)

ShowCreateWorkspaceReject == \E c \in ShowCallIds : ShowReject(c)

WebviewDisposed == \E p \in PanelIds : Dispose(p)

NextPanel ==
    \/ ShowCreateWorkspaceBegin
    \/ ShowCreateWorkspaceResume
    \/ ShowCreateWorkspaceReject
    \/ WebviewDisposed

(***************************************************************************)
(* Strings.  A string is the sequence of its characters, so that the       *)
(* string operations of part_001 are computed character by character.      *)
(* The strings of the model hold no '%': Uri.parse decodes nothing.        *)
(***************************************************************************)
WordChars ==
    {"a", "b", "c", "d", "e", "f", "g", "h", "i", "j", "k", "l", "m",
     "n", "o", "p", "q", "r", "s", "t", "u", "v", "w", "x", "y", "z",
     "A", "B", "C", "D", "E", "F", "G", "H", "I", "J", "K", "L", "M",
     "N", "O", "P", "Q", "R", "S", "T", "U", "V", "W", "X", "Y", "Z",
     "0", "1", "2", "3", "4", "5", "6", "7", "8", "9", "_"}

RefsHeads ==
    <<"r","e","f","s","/","h","e","a","d","s","/">>

DotGit ==
    <<".","g","i","t">>

SshScheme ==
    <<"s","s","h",":","/","/">>

BranchMain ==
    <<"m","a","i","n">>

BranchRefsMain ==
    <<"r","e","f","s","/","h","e","a","d","s","/","m","a","i","n">>

BranchInner ==
    <<"a","/","r","e","f","s","/","h","e","a","d","s","/","b">>

BranchTwice ==
    <<"r","e","f","s","/","h","e","a","d","s","/","r","e","f","s","/","h","e",
          "a","d","s","/","x">>

UrlScp ==
    <<"g","i","t","@","h","o","s","t",".","e","x","a","m","p","l","e",":","o",
          "r","g","/","r","e","p","o",".","g","i","t">>

UrlPlain ==
    <<"h","t","t","p","s",":","/","/","h","o","s","t","/","o","r","g","/","w",
          "e","i","r","d","-","n","a","m","e">>

UrlNoPath ==
    <<"h","t","t","p","s",":","/","/","h","o","s","t","/">>

UrlNoScheme ==
    <<"h","o","s","t","/","o","r","g","/","r","e","p","o",".","g","i","t">>

UrlTrailingSlash ==
    <<"h","t","t","p","s",":","/","/","h","o","s","t","/","o","r","g","/","r",
          "e","p","o",".","g","i","t","/">>

UrlOnlySuffix ==
    <<"h","t","t","p","s",":","/","/","h","o","s","t","/",".","g","i","t">>

UrlTwoSuffixes ==
    <<"s","s","h",":","/","/","h","o","s","t","/","a",".","g","i","t",".","g",
          "i","t">>

NameDemo ==
    <<"d","e","m","o">>

NameRepo ==
    <<"r","e","p","o">>

StartsWith(s, p) == Len(s) >= Len(p) /\ SubSeq(s, 1, Len(p)) = p

EndsWith(s, p) == Len(s) >= Len(p) /\ SubSeq(s, Len(s) - Len(p) + 1, Len(s)) = p

Drop(s, n) == SubSeq(s, n + 1, Len(s))

\* The positions at which p occurs in s.
Occurrences(s, p) ==
    {i \in 1..(Len(s) - Len(p) + 1) : SubSeq(s, i, i + Len(p) - 1) = p}

Min(S) == CHOOSE x \in S : \A y \in S : x <= y

Max(S) == CHOOSE x \in S : \A y \in S : x >= y

\* String.prototype.replace(p, r) with a string pattern: the first
\* occurrence of p, wherever it is, is replaced by r.
ReplaceFirst(s, p, r) ==
    IF Occurrences(s, p) = {} THEN s
    ELSE LET i == Min(Occurrences(s, p)) IN
         SubSeq(s, 1, i - 1) \o r \o Drop(s, i + Len(p) - 1)

\* /^[\w]+@/.test(s)
IsSchemeless(s) ==
    \E k \in 1..Len(s) :
        /\ k >= 2
        /\ s[k] = "@"
        /\ \A j \in 1..(k - 1) : s[j] \in WordChars

\* The position of the first character of s that is in cs, from position
\* from on; Len(s) + 1 when there is none.
FirstOf(s, cs, from) ==
    IF \E i \in from..Len(s) : s[i] \in cs
    THEN Min({i \in from..Len(s) : s[i] \in cs})
    ELSE Len(s) + 1

\* /^\w[\w\d+.-]*$/.test(scheme)
IsSchemeName(scheme) ==
    /\ scheme # << >>
    /\ scheme[1] \in WordChars
    /\ \A i \in 1..Len(scheme) : scheme[i] \in WordChars \cup {"+", ".", "-"}

\* vscode.Uri.parse(value, true): the scheme, authority and path of
\*   ^(([^:/?#]+?):)?(\/\/([^/?#]*))?([^?#]*)(\?([^#]*))?(#(.*))?
\* with the path resolved for the schemes http, https and file; ok is FALSE
\* where parse throws (no scheme, a malformed scheme or path).
UriParse(value) ==
    LET d == FirstOf(value, {":", "/", "?", "#"}, 1)
        hasScheme == d <= Len(value) /\ value[d] = ":" /\ d > 1
        scheme == IF hasScheme THEN SubSeq(value, 1, d - 1) ELSE << >>
        rest == IF hasScheme THEN Drop(value, d) ELSE value
        hasAuthority == StartsWith(rest, <<"/", "/">>)
        a == FirstOf(rest, {"/", "?", "#"}, 3)
        authority == IF hasAuthority THEN SubSeq(rest, 3, a - 1) ELSE << >>
        rest2 == IF hasAuthority THEN Drop(rest, a - 1) ELSE rest
        q == FirstOf(rest2, {"?", "#"}, 1)
        rawPath == SubSeq(rest2, 1, q - 1)
        path == IF scheme \in {<<"h","t","t","p","s">>, <<"h","t","t","p">>,
                               <<"f","i","l","e">>}
                THEN IF rawPath = << >> THEN <<"/">>
                     ELSE IF rawPath[1] # "/" THEN <<"/">> \o rawPath
                     ELSE rawPath
                ELSE rawPath
        valid == /\ scheme # << >>
                 /\ IsSchemeName(scheme)
                 /\ path # << >> =>
                        IF authority # << >>
                        THEN path[1] = "/"
                        ELSE ~StartsWith(path, <<"/", "/">>)
    IN [ok |-> valid, scheme |-> scheme, authority |-> authority, path |-> path]

\* path.split('/').pop(): what follows the last '/' of the path.
LastSegment(path) ==
    IF \E i \in 1..Len(path) : path[i] = "/"
    THEN Drop(path, Max({i \in 1..Len(path) : path[i] = "/"}))
    ELSE path

\* Mutant: the suffix is not removed.
StripGitSuffix_Kept(s) == s

\* replace(/\.git$/, ''): one trailing '.git' is removed.
StripGitSuffix(s) ==
    IF EndsWith(s, DotGit) THEN SubSeq(s, 1, Len(s) - Len(DotGit)) ELSE s

\* Lines 159-160: a URL that starts with user@ gets the scheme ssh://.
WithScheme(repositoryUrl) ==
    IF IsSchemeless(repositoryUrl) THEN SshScheme \o repositoryUrl
    ELSE repositoryUrl

\* Lines 162-165: the repository name of a parsed URL.
RepoNameOf(repoUri) == StripGitSuffix(LastSegment(repoUri.path))

\* Line 151: the branch name sent for a linked source.
BranchNameOf(name) == ReplaceFirst(name, RefsHeads, << >>)

(***************************************************************************)
(* CawsCreateWebview.submit                                                *)
(*                                                                         *)
(* submit is an async function: it runs up to an await, issues the         *)
(* collaborator call it awaits, and goes on when that call settles.  One   *)
(* action is the code between two awaits; subLog records, in order, every  *)
(* collaborator call of the submission and how it settled.                 *)
(***************************************************************************)
VSCode ==
    <<"V","S","C","o","d","e">>

OrgA ==
    <<"o","r","g","A">>

OrgB ==
    <<"o","r","g","B">>

Project(name, orgName) == [defined |-> TRUE, name |-> name, org |-> [name |-> orgName]]

\* The value undefined where a project, an organization is expected.
NoProject == [defined |-> FALSE, name |-> << >>, org |-> [name |-> << >>]]

Org(name) == [defined |-> TRUE, name |-> name]

NoOrg == [defined |-> FALSE, name |-> << >>]

Projects == {Project(NameDemo, OrgA), Project(NameRepo, OrgB)}

Orgs == {Org(OrgA), Org(OrgB)}

Branch(name) == [name |-> name, repo |-> [name |-> NameRepo]]

NoBranch == Branch(<< >>)

BranchNames == {BranchMain, BranchRefsMain, BranchInner, BranchTwice}

RepositoryUrls == {UrlScp, UrlPlain, UrlNoPath, UrlNoScheme, UrlTrailingSlash,
                   UrlOnlySuffix, UrlTwoSuffixes}

\* SourceResponse
EmptyResponse ==
    [type |-> "empty", repositoryUrl |-> << >>,
     selectedProject |-> NoProject, selectedBranch |-> NoBranch]

LinkedResponse(project, branch) ==
    [type |-> "linked", repositoryUrl |-> << >>,
     selectedProject |-> project, selectedBranch |-> branch]

CloneResponse(url) ==
    [type |-> "clone", repositoryUrl |-> url,
     selectedProject |-> NoProject, selectedBranch |-> NoBranch]

SourceResponses ==
    {EmptyResponse}
        \cup {LinkedResponse(p, Branch(b)) : p \in {Project(NameDemo, OrgA)},
                                             b \in BranchNames}
        \cup {CloneResponse(u) : u \in RepositoryUrls}

\* WorkspaceSettings
WorkspaceSettings ==
    {[alias |-> "dev", instanceType |-> "small",
      inactivityTimeoutMinutes |-> 15, persistentStorage |-> [sizeInGiB |-> 16]]}

WorkspaceIds == {"ws-1", "ws-2"}

NoWorkspace == "none"

Error(name, detail, statusCode) ==
    [name |-> name, detail |-> detail, statusCode |-> statusCode]

NoError == Error("", "", 0)

\* new CancellationError('user')
CancellationError == Error("CancellationError", "user", 0)

\* new TypeError('No repository name found')
NoRepositoryName == Error("TypeError", "No repository name found", 0)

\* The error vscode.Uri.parse throws.
UriError == Error("Error", "[UriError]", 0)

\* What a collaborator rejects with; 0 stands for an error without
\* statusCode.
ServiceErrors == {Error("ServiceError", "not found", 404),
                  Error("ServiceError", "internal", 500),
                  Error("NetworkError", "timeout", 0)}

Called(fn, arg) == [ev |-> "call", fn |-> fn, arg |-> arg]

Resolved(fn, value) == [ev |-> "resolved", fn |-> fn, arg |-> value]

Rejected(fn, err) == [ev |-> "rejected", fn |-> fn, arg |-> [err |-> err]]

Pending == [kind |-> "pending", err |-> NoError]

Returned == [kind |-> "returned", err |-> NoError]

Thrown(err) == [kind |-> "thrown", err |-> err]

NoLocals ==
    [repoName |-> << >>, repoUri |-> UriParse(<< >>), org |-> NoOrg,
     project |-> NoProject, workspace |-> NoWorkspace]

\* Lines 135-140 and 177-182: the request of the empty and clone variants.
WorkspaceRequest(project, settings) ==
    [ides |-> << [name |-> VSCode] >>,
     projectName |-> project.name,
     organizationName |-> project.org.name,
     alias |-> settings.alias,
     instanceType |-> settings.instanceType,
     inactivityTimeoutMinutes |-> settings.inactivityTimeoutMinutes,
     persistentStorage |-> settings.persistentStorage]

\* Lines 144-155: the request of the linked variant.
LinkedWorkspaceRequest(source, settings) ==
    [ides |-> << [name |-> VSCode] >>,
     projectName |-> source.selectedProject.name,
     organizationName |-> source.selectedProject.org.name,
     repositories |-> << [repositoryName |-> source.selectedBranch.repo.name,
                          branchName |-> BranchNameOf(source.selectedBranch.name)] >>,
     alias |-> settings.alias,
     instanceType |-> settings.instanceType,
     inactivityTimeoutMinutes |-> settings.inactivityTimeoutMinutes,
     persistentStorage |-> settings.persistentStorage]

\* Lines 200-205: the request of createProject.
CreateProjectRequest(organizationName, repoName) ==
    [name |-> repoName,
     organizationName |-> organizationName,
     displayName |-> repoName,
     description |-> "Created by AWS Toolkit for Workspaces"]

\* Mutant: a dismissed prompt is not noticed.
IsDismissed_Never(resource) == FALSE

\* Lines 131 and 172: !project, !org.
IsDismissed(resource) == ~resource.defined

\* Mutant: an empty repository name is accepted.
IsNoName_Never(repoName) == FALSE

\* Line 167: !repoName.
IsNoName(repoName) == repoName = << >>

\* Mutant: every failure of getProject is taken for a not-found result.
IsNotFound_Any(err) == TRUE

\* Line 191: the error is a not-found result.
IsNotFound(err) == err.statusCode = 404

\* Mutant: a project is created whatever getProject returned.
NeedsCreate_Always(existingProject) == TRUE

\* Lines 198-200: existingProject ?? this.client.createProject(...)
NeedsCreate(existingProject) == ~existingProject.defined

Finish(result) ==
    /\ subPc' = "done"
    /\ subResult' = result

\* submit (lines 114-124), with the code of the three variants up to their
\* first await: createEmptyWorkpace (130), createLinkedWorkspace (144-155),
\* cloneRepository (159-171).
Submit(settings, source) ==
    /\ subPc \in {"idle", "done"}
    /\ subSettings' = settings
    /\ subSource' = source
    /\ IF source.type = "empty"
       THEN /\ subPc' = "selectProject"
            /\ subLog' = << Called("selectCawsResource", [kind |-> "project"]) >>
            /\ subLocals' = NoLocals
            /\ subResult' = Pending
       ELSE IF source.type = "linked"
       THEN /\ subPc' = "createWorkspace"
            /\ subLog' = << Called("createDevelopmentWorkspace",
                                   LinkedWorkspaceRequest(source, settings)) >>
            /\ subLocals' = NoLocals
            /\ subResult' = Pending
       ELSE LET repoUri == UriParse(WithScheme(source.repositoryUrl))
                repoName == RepoNameOf(repoUri)
            IN IF ~repoUri.ok
               THEN /\ subLog' = << >>
                    /\ subLocals' = NoLocals
                    /\ Finish(Thrown(UriError))
               ELSE IF IsNoName(repoName)
               THEN /\ subLog' = << >>
                    /\ subLocals' = [NoLocals EXCEPT !.repoUri = repoUri]
                    /\ Finish(Thrown(NoRepositoryName))
               ELSE /\ subPc' = "selectOrg"
                    /\ subLog' = << Called("selectCawsResource", [kind |-> "org"]) >>
                    /\ subLocals' = [NoLocals EXCEPT !.repoUri = repoUri,
                                                     !.repoName = repoName]
                    /\ subResult' = Pending
    /\ UNCHANGED <<followUpVars, panelVars, editVars>>

\* createEmptyWorkpace after selectCawsResource(client, 'project') resolved
\* (lines 130-140).
ProjectSelected(project) ==
    /\ subPc = "selectProject"
    /\ LET log == Append(subLog, Resolved("selectCawsResource", [resource |-> project])) IN
       IF IsDismissed(project)
       THEN /\ subLog' = log
            /\ Finish(Thrown(CancellationError))
            /\ UNCHANGED subLocals
       ELSE /\ subLog' = Append(log, Called("createDevelopmentWorkspace",
                                            WorkspaceRequest(project, subSettings)))
            /\ subPc' = "createWorkspace"
            /\ subLocals' = [subLocals EXCEPT !.project = project]
            /\ UNCHANGED subResult
    /\ UNCHANGED <<subSettings, subSource, followUpVars, panelVars, editVars>>

\* cloneRepository after selectCawsResource(client, 'org') resolved
\* (lines 171-176), up to getProject in getUnlinkedProject (line 190).
OrgSelected(org) ==
    /\ subPc = "selectOrg"
    /\ LET log == Append(subLog, Resolved("selectCawsResource", [resource |-> org])) IN
       IF IsDismissed(org)
       THEN /\ subLog' = log
            /\ Finish(Thrown(CancellationError))
            /\ UNCHANGED subLocals
       ELSE /\ subLog' = Append(log, Called("getProject",
                                [name |-> subLocals.repoName,
                                 organizationName |-> org.name]))
            /\ subPc' = "getProject"
            /\ subLocals' = [subLocals EXCEPT !.org = org]
            /\ UNCHANGED subResult
    /\ UNCHANGED <<subSettings, subSource, followUpVars, panelVars, editVars>>

\* The rest of getUnlinkedProject once existingProject is known (lines
\* 198-206), and cloneRepository up to createDevelopmentWorkspace (177).
ResolveProject(log, existingProject) ==
    IF NeedsCreate(existingProject)
    THEN /\ subLog' = Append(log, Called("createProject",
                    CreateProjectRequest(subLocals.org.name, subLocals.repoName)))
         /\ subPc' = "createProject"
         /\ UNCHANGED <<subLocals, subResult>>
    ELSE /\ subLog' = Append(log, Called("createDevelopmentWorkspace",
                                         WorkspaceRequest(existingProject, subSettings)))
         /\ subPc' = "createWorkspace"
         /\ subLocals' = [subLocals EXCEPT !.project = existingProject]
         /\ UNCHANGED subResult

\* client.getProject resolved (line 190).
GetProjectResolved(project) ==
    /\ subPc = "getProject"
    /\ ResolveProject(Append(subLog, Resolved("getProject", [project |-> project])),
                      project)
    /\ UNCHANGED <<subSettings, subSource, followUpVars, panelVars, editVars>>

\* client.getProject rejected: the catch of lines 190-196.
GetProjectRejected(err) ==
    /\ subPc = "getProject"
    /\ LET log == Append(subLog, Rejected("getProject", err)) IN
       IF IsNotFound(err)
       THEN ResolveProject(log, NoProject)
       ELSE /\ subLog' = log
            /\ Finish(Thrown(err))
            /\ UNCHANGED subLocals
    /\ UNCHANGED <<subSettings, subSource, followUpVars, panelVars, editVars>>

\* client.createProject resolved: its result is the project of line 176.
CreateProjectResolved(project) ==
    /\ subPc = "createProject"
    /\ subLog' = Append(Append(subLog, Resolved("createProject", [project |-> project])),
                        Called("createDevelopmentWorkspace",
                               WorkspaceRequest(project, subSettings)))
    /\ subPc' = "createWorkspace"
    /\ subLocals' = [subLocals EXCEPT !.project = project]
    /\ UNCHANGED <<subResult, subSettings, subSource, followUpVars, panelVars, editVars>>

\* Mutant: cloneToWorkspace is not awaited, cloneRepository returns and
\* submit opens the workspace while the clone runs.
CreateWorkspaceResolved_CloneNotAwaited(workspace) ==
    /\ subPc = "createWorkspace"
    /\ LET log == Append(subLog, Resolved("createDevelopmentWorkspace",
                                          [workspace |-> workspace]))
           opened == Called("openDevelopmentWorkspace", [workspace |-> workspace])
       IN IF subSource.type = "clone"
          THEN subLog' = Append(Append(log, Called("cloneToWorkspace",
                                    [workspace |-> workspace,
                                     name |-> subLocals.repoName,
                                     location |-> subLocals.repoUri])), opened)
          ELSE subLog' = Append(log, opened)
    /\ subPc' = "open"
    /\ subLocals' = [subLocals EXCEPT !.workspace = workspace]
    /\ UNCHANGED <<subResult, subSettings, subSource, followUpVars, panelVars, editVars>>

\* client.createDevelopmentWorkspace resolved: cloneRepository goes on to
\* cloneToWorkspace (line 184), the other variants return to submit, which
\* calls openDevelopmentWorkspace (line 126).
CreateWorkspaceResolved(workspace) ==
    /\ subPc = "createWorkspace"
    /\ LET log == Append(subLog, Resolved("createDevelopmentWorkspace",
                                          [workspace |-> workspace])) IN
       IF subSource.type = "clone"
       THEN /\ subLog' = Append(log, Called("cloneToWorkspace",
                                [workspace |-> workspace,
                                 name |-> subLocals.repoName,
                                 location |-> subLocals.repoUri]))
            /\ subPc' = "clone"
       ELSE /\ subLog' = Append(log, Called("openDevelopmentWorkspace",
                                            [workspace |-> workspace]))
            /\ subPc' = "open"
    /\ subLocals' = [subLocals EXCEPT !.workspace = workspace]
    /\ UNCHANGED <<subResult, subSettings, subSource, followUpVars, panelVars, editVars>>

\* cloneToWorkspace resolved (lines 184-186), then submit line 126.
CloneResolved ==
    /\ subPc = "clone"
    /\ subLog' = Append(Append(subLog, Resolved("cloneToWorkspace", NoArg)),
                        Called("openDevelopmentWorkspace",
                               [workspace |-> subLocals.workspace]))
    /\ subPc' = "open"
    /\ UNCHANGED <<subLocals, subResult, subSettings, subSource, followUpVars, panelVars, editVars>>

\* openDevelopmentWorkspace resolved: submit returns.
OpenResolved ==
    /\ subPc = "open"
    /\ subLog' = Append(subLog, Resolved("openDevelopmentWorkspace", NoArg))
    /\ Finish(Returned)
    /\ UNCHANGED <<subLocals, subSettings, subSource, followUpVars, panelVars, editVars>>

\* The call a pending submission awaits.
AwaitedCall ==
    CASE subPc \in {"selectProject", "selectOrg"} -> "selectCawsResource"
      [] subPc = "createProject" -> "createProject"
      [] subPc = "createWorkspace" -> "createDevelopmentWorkspace"
      [] subPc = "clone" -> "cloneToWorkspace"
      [] subPc = "open" -> "openDevelopmentWorkspace"
      [] OTHER -> "none"

\* Mutant: a rejected createDevelopmentWorkspace request is issued again.
CallRejected_Retry(err) ==
    /\ AwaitedCall # "none"
    /\ IF AwaitedCall = "createDevelopmentWorkspace"
       THEN /\ subLog' = Append(Append(subLog, Rejected(AwaitedCall, err)),
                                Called(AwaitedCall, subLog[Len(subLog)].arg))
            /\ UNCHANGED <<subPc, subResult>>
       ELSE /\ subLog' = Append(subLog, Rejected(AwaitedCall, err))
            /\ Finish(Thrown(err))
    /\ UNCHANGED <<subLocals, subSettings, subSource, followUpVars, panelVars, editVars>>

\* An awaited call other than getProject rejects: nothing catches the
\* error, submit rejects with it.
CallRejected(err) ==
    /\ AwaitedCall # "none"
    /\ subLog' = Append(subLog, Rejected(AwaitedCall, err))
    /\ Finish(Thrown(err))
    /\ UNCHANGED <<subLocals, subSettings, subSource, followUpVars, panelVars, editVars>>

InitSubmit ==
    /\ subPc = "idle"
    /\ subSource = EmptyResponse
    /\ subSettings \in WorkspaceSettings
    /\ subLocals = NoLocals
    /\ subLog = << >>
    /\ subResult = Pending

SubmitCalled ==
    \E settings \in WorkspaceSettings, source \in SourceResponses :
        Submit(settings, source)

SelectProjectSettled == \E project \in Projects \cup {NoProject} : ProjectSelected(project)

SelectOrgSettled == \E org \in Orgs \cup {NoOrg} : OrgSelected(org)

GetProjectSettled ==
    \/ \E project \in Projects : GetProjectResolved(project)
    \/ \E err \in ServiceErrors : GetProjectRejected(err)

CreateProjectSettled == \E project \in Projects : CreateProjectResolved(project)

CreateWorkspaceSettled == \E workspace \in WorkspaceIds : CreateWorkspaceResolved(workspace)

AwaitRejected == \E err \in ServiceErrors : CallRejected(err)

NextSubmit ==
    \/ SubmitCalled
    \/ SelectProjectSettled
    \/ SelectOrgSettled
    \/ GetProjectSettled
    \/ CreateProjectSettled
    \/ CreateWorkspaceSettled
    \/ CloneResolved
    \/ OpenResolved
    \/ AwaitRejected

(***************************************************************************)
(* CawsCreateWebview.editSetting                                           *)
(*                                                                         *)
(* An async function with one await, that of prompter.prompt().            *)
(***************************************************************************)
SettingKeys == {"alias", "instanceType", "inactivityTimeoutMinutes",
                "persistentStorage"}

\* The values a field of WorkspaceSettings takes in the model.
FieldValues(key) ==
    CASE key = "alias" -> {"dev", "test"}
      [] key = "instanceType" -> {"small", "large"}
      [] key = "inactivityTimeoutMinutes" -> {15, 30}
      [] key = "persistentStorage" -> {[sizeInGiB |-> 16], [sizeInGiB |-> 32]}

\* The settings editSetting is called with.
EditableSettings ==
    [alias : FieldValues("alias"),
     instanceType : FieldValues("instanceType"),
     inactivityTimeoutMinutes : FieldValues("inactivityTimeoutMinutes"),
     persistentStorage : FieldValues("persistentStorage")]

\* What prompter.prompt() resolves with: a value, undefined (the prompt was
\* cancelled) or a wizard control signal.
Answer(value) == [kind |-> "value", item |-> [value |-> value]]

Cancelled == [kind |-> "undefined", item |-> NoArg]

WizardControls == {[kind |-> k, item |-> NoArg] :
                        k \in {"WIZARD_BACK", "WIZARD_EXIT", "WIZARD_RETRY"}}

\* isValidResponse (shared/wizards/wizard): neither undefined nor a control
\* signal.
IsValidResponse(response) == response.kind = "value"

\* Lines 102-111: the prompter made for the key.
PrompterFor(key) ==
    CASE key = "alias" -> "createAliasPrompter"
      [] key = "instanceType" -> "createInstancePrompter"
      [] key = "inactivityTimeoutMinutes" -> "createTimeoutPrompter"
      [] key = "persistentStorage" -> "createStoragePrompter"

\* Mutant: the settings are spread after the response, which restores the
\* field.
EditOutcome_SpreadLast(settings, key, response) == settings

\* Lines 95-99: { ...settings, [key]: response } for a valid response, the
\* settings themselves otherwise.
EditOutcome(settings, key, response) ==
    IF IsValidResponse(response)
    THEN [settings EXCEPT ![key] = response.item.value]
    ELSE settings

NoPrompter == [factory |-> "none", recentItem |-> NoArg]

\* Lines 90-93 and 102-111, up to the await of prompter.prompt().
EditSetting(settings, key) ==
    /\ editPc \in {"idle", "done"}
    /\ editArgs' = [settings |-> settings, key |-> key]
    /\ editPrompter' = [factory |-> PrompterFor(key),
                        recentItem |-> [value |-> settings[key]]]
    /\ editResponse' = Cancelled
    /\ editResult' = settings
    /\ editPc' = "prompting"
    /\ UNCHANGED <<followUpVars, panelVars, submitVars>>

\* Lines 93-99: prompter.prompt() resolved.
PromptResolved(response) ==
    /\ editPc = "prompting"
    /\ editResponse' = response
    /\ editResult' = EditOutcome(editArgs.settings, editArgs.key, response)
    /\ editPc' = "done"
    /\ UNCHANGED <<editArgs, editPrompter, followUpVars, panelVars, submitVars>>

InitEdit ==
    /\ editPc = "idle"
    /\ editArgs \in [settings : WorkspaceSettings, key : {"alias"}]
    /\ editPrompter = NoPrompter
    /\ editResponse = Cancelled
    /\ editResult \in WorkspaceSettings

EditSettingCalled ==
    \E settings \in EditableSettings, key \in SettingKeys : EditSetting(settings, key)

PromptSettled ==
    \E response \in {Answer(v) : v \in FieldValues(editArgs.key)}
                        \cup {Cancelled} \cup WizardControls :
        PromptResolved(response)

NextEdit == EditSettingCalled \/ PromptSettled

(***************************************************************************)
(* Properties of FollowUpInteractionHandler                                *)
(***************************************************************************)
CallsOf(cs, fns) == {i \in 1..Len(cs) : cs[i].fn \in fns}

IsFollowUpRun == lastOp.op = "onFollowUpClicked"

IsAuthRun == IsFollowUpRun /\ lastOp.followUp.type \in AuthFollowUpTypes

IsAssignRun ==
    /\ lastOp.op = "onWelcomeFollowUpClicked"
    /\ lastOp.welcomeFollowUpType = "assign-code-task"

ForwardCall(op) ==
    Call("connector.onFollowUpClicked", op.tabID,
         [messageId |-> op.messageId, followUp |-> op.followUp])

\* C1: a follow-up of type 'full-auth' or 're-auth', with or without a
\* prompt, makes exactly one call, connector.onAuthFollowUpClicked(tabID,
\* type), and no other call.
C1_AuthOnly ==
    IsAuthRun =>
        calls = << Call("connector.onAuthFollowUpClicked", lastOp.tabID,
                        [type |-> lastOp.followUp.type]) >>

C1_Witness ==
    /\ IsAuthRun
    /\ lastOp.followUp.prompt = "explain"
    /\ Len(calls) = 1

IsPromptRun ==
    /\ IsFollowUpRun
    /\ lastOp.followUp.type = Undefined
    /\ lastOp.followUp.prompt \notin {Undefined, ""}

\* C2 as stated: the two chat items are appended before the loading state
\* is set, the busy status after it, and the forwarding comes last.
C2_AppendsBeforeLoading ==
    IsPromptRun =>
        \E a, b, l, s, f \in 1..Len(calls) :
            /\ a < b /\ b < l /\ l < s /\ s < f /\ f = Len(calls)
            /\ calls[a] = Call("mynahUI.addChatItem", lastOp.tabID,
                               [type |-> "PROMPT", body |-> lastOp.followUp.prompt])
            /\ calls[b] = Call("mynahUI.addChatItem", lastOp.tabID,
                               [type |-> "ANSWER_STREAM", body |-> ""])
            /\ calls[l].fn = "mynahUI.updateStore"
            /\ calls[s].fn = "tabsStorage.updateTabStatus"
            /\ calls[f] = ForwardCall(lastOp)
            /\ CallsOf(calls, {"mynahUI.addChatItem"}) = {a, b}

\* C2 (amended): a follow-up with a non-empty prompt and unset type first
\* sets the loading state, then appends exactly two chat items (the PROMPT
\* item carrying the prompt, then an ANSWER_STREAM item with an empty body),
\* then sets the busy status and resets the tab timer, and only then
\* forwards the action with connector.onFollowUpClicked; on return the tab
\* is loading, busy and its chat ends with these two items.
C2_LoadingAppendsBusyForward ==
    IsPromptRun =>
        LET t == lastOp.tabID
            n == Len(ui[t].chat) IN
        /\ calls = << Call("mynahUI.updateStore", t,
                           [loadingChat |-> TRUE, promptInputDisabledState |-> TRUE]),
                      Call("mynahUI.addChatItem", t,
                           [type |-> "PROMPT", body |-> lastOp.followUp.prompt]),
                      Call("mynahUI.addChatItem", t,
                           [type |-> "ANSWER_STREAM", body |-> ""]),
                      Call("tabsStorage.updateTabStatus", t, [status |-> "busy"]),
                      Call("tabsStorage.resetTabTimer", t, NoArg),
                      ForwardCall(lastOp) >>
        /\ ui[t].loading
        /\ tabs[t].status = "busy"
        /\ n >= 2
        /\ ui[t].chat[n - 1] = [type |-> "PROMPT", body |-> lastOp.followUp.prompt]
        /\ ui[t].chat[n] = [type |-> "ANSWER_STREAM", body |-> ""]

C2_Witness ==
    /\ IsPromptRun
    /\ Len(calls) = 6
    /\ Len(ui[lastOp.tabID].chat) = 2

\* C3: a follow-up whose type is not 'full-auth' or 're-auth' calls
\* connector.onFollowUpClicked exactly once, with the original (tabID,
\* messageId, followUp), as its last call; without a prompt this is the
\* only call.
C3_ForwardOnceLast ==
    (IsFollowUpRun /\ lastOp.followUp.type \notin AuthFollowUpTypes) =>
        /\ calls # << >>
        /\ calls[Len(calls)] = ForwardCall(lastOp)
        /\ CallsOf(calls, {"connector.onFollowUpClicked"}) = {Len(calls)}
        /\ lastOp.followUp.prompt = Undefined => Len(calls) = 1

C3_Witness ==
    /\ IsFollowUpRun
    /\ lastOp.followUp.type = "help"
    /\ lastOp.followUp.prompt = Undefined
    /\ calls = << ForwardCall(lastOp) >>

KnownTabOpenOnlyFor(cs, id) ==
    /\ Cardinality(CallsOf(cs, {"connector.onKnownTabOpen"})) = 1
    /\ \A i \in CallsOf(cs, {"connector.onKnownTabOpen"}) : cs[i].tab = id

\* C4 as stated: after a successful 'assign-code-task' the new tab is
\* registered with type 'wb', the originating tab has type 'cwc', and
\* connector.onKnownTabOpen was called once, for the new tab only.
C4_OriginatingIsCwc ==
    (IsAssignRun /\ lastOp.newTabId # NoNewTab) =>
        /\ lastOp.newTabId \in DOMAIN tabs
        /\ tabs[lastOp.newTabId].type = "wb"
        /\ tabs[lastOp.tabID].type = "cwc"
        /\ KnownTabOpenOnlyFor(calls, lastOp.newTabId)

\* C4 (amended): after a successful 'assign-code-task' the new tab is
\* registered with type 'wb', the originating tab has type 'cwc' if its type
\* was 'unknown' before the call and keeps its type otherwise, and
\* connector.onKnownTabOpen was called exactly once, with the new tab's id
\* and never with the originating tab's id.
C4_OriginatingRetaggedFromUnknown ==
    [][ (IsAssignRun /\ lastOp.newTabId # NoNewTab)' =>
            /\ lastOp'.newTabId \notin DOMAIN tabs
            /\ lastOp'.newTabId \in DOMAIN tabs'
            /\ tabs'[lastOp'.newTabId].type = "wb"
            /\ tabs'[lastOp'.tabID].type =
                    (IF tabs[lastOp'.tabID].type = "unknown"
                     THEN "cwc" ELSE tabs[lastOp'.tabID].type)
            /\ lastOp'.newTabId # lastOp'.tabID
            /\ KnownTabOpenOnlyFor(calls', lastOp'.newTabId) ]_vars

C4_Witness ==
    /\ IsAssignRun
    /\ lastOp.newTabId \in DOMAIN tabs
    /\ tabs[lastOp.newTabId].type = "wb"
    /\ tabs[lastOp.tabID].type = "wb"
    /\ KnownTabOpenOnlyFor(calls, lastOp.newTabId)

\* C5: when tab creation fails in 'assign-code-task', the tab registry is
\* left unchanged (no addTab, no updateTabTypeFromUnknown), no connector
\* notification is sent, and exactly one WARNING notification is shown.
C5_FailureOnlyWarns ==
    [][ (IsAssignRun /\ lastOp.newTabId = NoNewTab)' =>
            /\ tabs' = tabs
            /\ ui' = ui
            /\ CallsOf(calls', {"tabsStorage.addTab",
                                "tabsStorage.updateTabTypeFromUnknown",
                                "tabsStorage.updateTabStatus",
                                "connector.onUpdateTabType",
                                "connector.onKnownTabOpen"}) = {}
            /\ Cardinality(CallsOf(calls', {"mynahUI.notify"})) = 1
            /\ \A i \in CallsOf(calls', {"mynahUI.notify"}) :
                    calls'[i].arg.type = "WARNING" ]_vars

C5_Witness ==
    /\ IsAssignRun
    /\ lastOp.newTabId = NoNewTab
    /\ Cardinality(CallsOf(calls, {"mynahUI.notify"})) = 1
    /\ Cardinality(DOMAIN tabs) < MaxTabs

IsWelcomeRun(types) ==
    /\ lastOp.op = "onWelcomeFollowUpClicked"
    /\ lastOp.welcomeFollowUpType \in types

WelcomeAnswer == [type |-> "ANSWER", body |-> "Ok, please write your question below."]

\* C17: onWelcomeFollowUpClicked(tabID, 'continue-to-chat') appends one
\* ANSWER item with the fixed text to the tab, retags the tab to 'cwc' when
\* its type is 'unknown' (and leaves any other type), and calls
\* connector.onUpdateTabType(tabID) once; it makes no other call, so no tab
\* is created or registered and connector.onKnownTabOpen is not called.
C17_ContinueToChat ==
    [][ IsWelcomeRun({"continue-to-chat"})' =>
            /\ calls' = << Call("mynahUI.addChatItem", lastOp'.tabID, WelcomeAnswer),
                           Call("tabsStorage.updateTabTypeFromUnknown", lastOp'.tabID,
                                [type |-> "cwc"]),
                           Call("connector.onUpdateTabType", lastOp'.tabID, NoArg) >>
            /\ ui' = [ui EXCEPT ![lastOp'.tabID].chat = Append(@, WelcomeAnswer)]
            /\ tabs' = [tabs EXCEPT ![lastOp'.tabID].type =
                                        IF @ = "unknown" THEN "cwc" ELSE @]
            /\ DOMAIN tabs' = DOMAIN tabs
            /\ DOMAIN ui' = DOMAIN ui ]_vars

C17_Witness ==
    /\ IsWelcomeRun({"continue-to-chat"})
    /\ tabs[lastOp.tabID].type = "wb"
    /\ Len(calls) = 3
    /\ ui[lastOp.tabID].chat[Len(ui[lastOp.tabID].chat)] = WelcomeAnswer

\* C18: onWelcomeFollowUpClicked with a type other than 'assign-code-task'
\* and 'continue-to-chat' calls nothing and leaves the tab registry and the
\* chat UI as they were.
C18_OtherTypeNoOp ==
    [][ IsWelcomeRun(WelcomeFollowupTypes \ {"assign-code-task", "continue-to-chat"})' =>
            /\ calls' = << >>
            /\ tabs' = tabs
            /\ ui' = ui ]_vars

C18_Witness ==
    /\ IsWelcomeRun({"other"})
    /\ calls = << >>
    /\ Cardinality(DOMAIN tabs) = 2
    /\ Len(ui[lastOp.tabID].chat) = 1

CallsFor(fn, id) ==
    {i \in 1..Len(calls) : calls[i].fn = fn /\ calls[i].tab = id}

\* C19: in a successful 'assign-code-task' the new tab is registered by
\* tabsStorage.addTab (status 'busy', type 'unknown') before any retag or
\* backend notification that names it; for the originating and for the new
\* tab, connector.onUpdateTabType(id) comes after updateTabTypeFromUnknown
\* for that id, the originating tab first; connector.onKnownTabOpen(newTabId)
\* is the last call, made when the new tab has type 'wb'.
C19_AssignOrder ==
    (IsAssignRun /\ lastOp.newTabId # NoNewTab) =>
        LET t == lastOp.tabID
            n == lastOp.newTabId
            Retag(id) == CallsFor("tabsStorage.updateTabTypeFromUnknown", id)
            Notify(id) == CallsFor("connector.onUpdateTabType", id)
            Mentions == {i \in 1..Len(calls) :
                            /\ calls[i].tab = n
                            /\ calls[i].fn # "tabsStorage.addTab"}
        IN /\ \E a \in 1..Len(calls) :
                /\ CallsOf(calls, {"tabsStorage.addTab"}) = {a}
                /\ calls[a].arg.id = n
                /\ calls[a].arg.status = "busy"
                /\ calls[a].arg.type = "unknown"
                /\ \A i \in Mentions : a < i
           /\ \A id \in {t, n} :
                /\ Cardinality(Retag(id)) = 1
                /\ Cardinality(Notify(id)) = 1
                /\ \A r \in Retag(id), u \in Notify(id) : r < u
           /\ \A u \in Notify(t), r \in Retag(n) : u < r
           /\ \A r \in Retag(n) : calls[r].arg.type = "wb"
           /\ CallsOf(calls, {"connector.onKnownTabOpen"}) = {Len(calls)}
           /\ calls[Len(calls)].tab = n
           /\ \A u \in Notify(n) : u < Len(calls)
           /\ tabs[n].type = "wb"

C19_Witness ==
    /\ IsAssignRun
    /\ lastOp.newTabId = 2
    /\ Len(calls) = 7
    /\ calls[2].fn = "tabsStorage.addTab"
    /\ calls[7] = Call("connector.onKnownTabOpen", 2, NoArg)

\* A tab with only part of the prompt branch applied: loading, but not busy
\* or without a PROMPT item followed by an ANSWER_STREAM item.
TornTabs ==
    {t \in DOMAIN ui :
        /\ ui[t].loading
        /\ \/ t \notin DOMAIN tabs
           \/ tabs[t].status # "busy"
           \/ ~\E i \in 1..(Len(ui[t].chat) - 1) :
                    /\ ui[t].chat[i].type = "PROMPT"
                    /\ ui[t].chat[i + 1].type = "ANSWER_STREAM"}

\* C16: the prompt branch of onFollowUpClicked is atomic with respect to
\* other UI events: no handler is ever suspended, and whenever the call
\* stack is empty, so that the handler of another follow-up click or welcome
\* follow-up can start, no tab has only part of the steps set loading, append
\* prompt item, append placeholder item, mark busy applied.
C16_PromptBranchAtomic ==
    /\ suspendedFrames = {}
    /\ stack.rest = << >> => TornTabs = {}

C16_Witness ==
    /\ IsPromptRun
    /\ stack.rest # << >>
    /\ stack.done = 1
    /\ lastOp.tabID \in TornTabs

(***************************************************************************)
(* Properties of the panel singleton                                       *)
(***************************************************************************)
Constructed == {p \in PanelIds : panelState[p] # "unbuilt"}

NoDisposal == \A p \in PanelIds : panelState[p] # "disposed"

\* C6: as long as no panel was disposed, the Panel constructor has run at
\* most once over any interleaving of showCreateWorkspace calls (a call may
\* start while another still awaits activePanel.show), and every call shows
\* that one instance.
C6_SinglePanel ==
    NoDisposal =>
        /\ Cardinality(Constructed) <= 1
        /\ \A c \in ShowCallIds :
                showPc[c] # "idle" =>
                    /\ showPanel[c] = activePanel
                    /\ Constructed = {showPanel[c]}

C6_Witness ==
    /\ NoDisposal
    /\ showPc[1] = "awaiting"
    /\ showPc[2] = "awaiting"
    /\ showPanel[1] = showPanel[2]
    /\ Cardinality(Constructed) = 1

\* C7: whenever a panel is disposed, at whatever point of a
\* showCreateWorkspace call, activePanel and subscriptions are cleared: a
\* disposed panel is never the singleton and subscriptions never holds a
\* registration made on it.
C7_DisposalClears ==
    \A p \in PanelIds :
        panelState[p] = "disposed" =>
            /\ activePanel # p
            /\ \A i \in 1..Len(subscriptions.list) : subscriptions.list[i] # p

\* C20: in every state of the panel bookkeeping, over any interleaving of
\* showCreateWorkspace calls and disposals: when subscriptions is defined,
\* activePanel is defined; subscriptions holds at most one onDidDispose
\* registration, made on the current panel, and no webview carries a second
\* callback.
C20_BookkeepingInvariant ==
    /\ subscriptions.defined =>
            /\ activePanel # NoPanel
            /\ Len(subscriptions.list) = 1
            /\ subscriptions.list[1] = activePanel
    /\ \A p \in PanelIds : listeners[p] <= 1

\* The registrations never exceed one per webview and one in subscriptions.
C20_SingleRegistration ==
    /\ Len(subscriptions.list) <= 1
    /\ \A p \in PanelIds : listeners[p] <= 1

\* A callback that runs clears activePanel and subscriptions in the same
\* step.
C20_ClearedTogether ==
    [][ (\E p \in PanelIds : panelState[p] = "open" /\ panelState'[p] = "disposed"
                                /\ listeners[p] > 0) =>
            /\ activePanel' = NoPanel
            /\ subscriptions' = NoSubscriptions ]_vars

(***************************************************************************)
(* Properties of CawsCreateWebview.submit                                  *)
(***************************************************************************)
ProvisioningCalls ==
    {i \in 1..Len(subLog) :
        /\ subLog[i].ev = "call"
        /\ subLog[i].fn \in {"createProject", "createDevelopmentWorkspace",
                             "cloneToWorkspace", "openDevelopmentWorkspace"}}

\* The selection prompts of the submission that were dismissed.
Dismissals ==
    {i \in 1..Len(subLog) :
        /\ subLog[i].ev = "resolved"
        /\ subLog[i].fn = "selectCawsResource"
        /\ ~subLog[i].arg.resource.defined}

\* The clone URL of the submission yields no repository name.
NoDerivableName ==
    /\ subPc # "idle"
    /\ subSource.type = "clone"
    /\ LET repoUri == UriParse(WithScheme(subSource.repositoryUrl)) IN
       ~repoUri.ok \/ RepoNameOf(repoUri) = << >>

\* C8: a submission that aborts at a dismissed project or organization
\* prompt, or at a clone URL without a derivable repository name, has called
\* none of createProject, createDevelopmentWorkspace, cloneToWorkspace and
\* openDevelopmentWorkspace, and calls nothing afterwards; a dismissed
\* prompt ends the submission with CancellationError('user').
C8_AbortBeforeProvisioning ==
    /\ NoDerivableName =>
            /\ subPc = "done"
            /\ subResult.kind = "thrown"
            /\ subLog = << >>
    /\ \A i \in Dismissals :
            /\ i = Len(subLog)
            /\ subPc = "done"
            /\ subResult = Thrown(CancellationError)
            /\ ProvisioningCalls = {}

C8_Witness ==
    /\ subSource.type = "clone"
    /\ Dismissals = {2}
    /\ subPc = "done"
    /\ subResult = Thrown(CancellationError)

CreateProjectCalls ==
    {i \in 1..Len(subLog) : subLog[i].ev = "call" /\ subLog[i].fn = "createProject"}

\* The createDevelopmentWorkspace call at position i is made for project p.
ProvisionsFor(i, p) ==
    /\ i <= Len(subLog)
    /\ subLog[i].ev = "call"
    /\ subLog[i].fn = "createDevelopmentWorkspace"
    /\ subLog[i].arg.projectName = p.name
    /\ subLog[i].arg.organizationName = p.org.name

\* C9: in getUnlinkedProject(org, repoName), a not-found (404) failure of
\* getProject is followed by exactly one createProject call with name and
\* displayName equal to repoName in that organization, whose result is the
\* resolved project; a project returned by getProject is the resolved
\* project and createProject is not called.
C9_ResolveOrCreate ==
    \A i \in 1..Len(subLog) :
        /\ (subLog[i].ev = "rejected" /\ subLog[i].fn = "getProject"
                /\ subLog[i].arg.err.statusCode = 404) =>
            /\ CreateProjectCalls = {i + 1}
            /\ subLog[i + 1].arg.name = subLocals.repoName
            /\ subLog[i + 1].arg.displayName = subLocals.repoName
            /\ subLog[i + 1].arg.organizationName = subLocals.org.name
            /\ subLocals.repoName # << >>
            /\ (Len(subLog) >= i + 2 /\ subLog[i + 2].ev = "resolved") =>
                    /\ subLocals.project = subLog[i + 2].arg.project
                    /\ ProvisionsFor(i + 3, subLog[i + 2].arg.project)
        /\ (subLog[i].ev = "resolved" /\ subLog[i].fn = "getProject") =>
            /\ CreateProjectCalls = {}
            /\ subLocals.project = subLog[i].arg.project
            /\ ProvisionsFor(i + 1, subLog[i].arg.project)

C9_Witness ==
    /\ Len(subLog) >= 6
    /\ subLog[4].ev = "rejected"
    /\ subLog[4].fn = "getProject"
    /\ subLog[4].arg.err.statusCode = 404
    /\ subLog[5].fn = "createProject"
    /\ subLog[6].ev = "resolved"
    /\ subLocals.project = subLog[6].arg.project

\* C10: the branchName of a linked provisioning request is the selected
\* branch's name without a leading 'refs/heads/'; a name that does not
\* start with 'refs/heads/' is sent unchanged.
C10_LeadingPrefixStripped ==
    (subPc # "idle" /\ subSource.type = "linked") =>
        LET name == subSource.selectedBranch.name IN
        /\ subLog[1].ev = "call"
        /\ subLog[1].fn = "createDevelopmentWorkspace"
        /\ subLog[1].arg.repositories[1].branchName =
                (IF StartsWith(name, RefsHeads) THEN Drop(name, Len(RefsHeads))
                 ELSE name)

NameWeird ==
    <<"w","e","i","r","d","-","n","a","m","e">>

NameAGit ==
    <<"a",".","g","i","t">>

\* The repository name each clone URL of the model is to yield, worked out
\* by hand: the last '/'-separated segment of the path of the URL (after
\* 'ssh://' was put before a leading user@), less one trailing '.git';
\* empty where there is no name or the URL does not parse.
ExpectedRepoName(url) ==
    CASE url = UrlScp -> NameRepo
      [] url = UrlPlain -> NameWeird
      [] url = UrlTwoSuffixes -> NameAGit
      [] url = UrlNoPath -> << >>
      [] url = UrlTrailingSlash -> << >>
      [] url = UrlOnlySuffix -> << >>
      [] url = UrlNoScheme -> << >>

\* C11: the repository name of a clone submission is the final segment of
\* the parsed URL's path less one trailing '.git', a URL starting with
\* user@ being prefixed with 'ssh://' first ('git@host.example:org/repo.git'
\* gives 'repo', 'https://host/org/weird-name' gives 'weird-name'); a URL
\* whose name is empty ('https://host/') makes the submission fail with an
\* error before any call.
C11_RepoNameDerived ==
    (subPc # "idle" /\ subSource.type = "clone") =>
        LET expected == ExpectedRepoName(subSource.repositoryUrl) IN
        IF expected = << >>
        THEN /\ subPc = "done"
             /\ subResult.kind = "thrown"
             /\ subLog = << >>
        ELSE /\ subLocals.repoName = expected
             /\ subResult # Thrown(NoRepositoryName)
             /\ subLog # << >>
             /\ \A i \in 1..Len(subLog) :
                    (subLog[i].ev = "call"
                        /\ subLog[i].fn \in {"getProject", "createProject",
                                             "cloneToWorkspace"}) =>
                        subLog[i].arg.name = expected

C11_Witness ==
    /\ subSource = CloneResponse(UrlScp)
    /\ subPc = "clone"
    /\ subLocals.repoName = NameRepo
    /\ subLog[Len(subLog)].arg.name = NameRepo

\* The collaborator call cur of a clone submission is the step that follows
\* the settled call prev.
Follows(prev, cur) ==
    CASE cur.fn = "getProject" ->
            prev.fn = "selectCawsResource" /\ prev.ev = "resolved"
      [] cur.fn = "createProject" ->
            /\ prev.fn = "getProject"
            /\ prev.ev = "rejected"
            /\ prev.arg.err.statusCode = 404
      [] cur.fn = "createDevelopmentWorkspace" ->
            prev.fn \in {"getProject", "createProject"} /\ prev.ev = "resolved"
      [] cur.fn = "cloneToWorkspace" ->
            /\ prev.fn = "createDevelopmentWorkspace"
            /\ prev.ev = "resolved"
            /\ prev.arg.workspace = cur.arg.workspace
      [] cur.fn = "openDevelopmentWorkspace" ->
            prev.fn = "cloneToWorkspace" /\ prev.ev = "resolved"
      [] OTHER -> FALSE

\* C13: a clone submission parses the URL, then selects the organization,
\* then calls getProject, createProject (only after a not-found getProject),
\* createDevelopmentWorkspace, cloneToWorkspace and openDevelopmentWorkspace
\* in this order, each call made only when the previous one has resolved:
\* calls and their outcomes alternate, cloneToWorkspace is called with the
\* workspace createDevelopmentWorkspace resolved with, and
\* openDevelopmentWorkspace follows the resolution of cloneToWorkspace.
C13_StepsInOrder ==
    (subPc # "idle" /\ subSource.type = "clone" /\ subLog # << >>) =>
        /\ subLog[1] = Called("selectCawsResource", [kind |-> "org"])
        /\ subLocals.repoUri.ok
        /\ subLocals.repoName = RepoNameOf(subLocals.repoUri)
        /\ subLocals.repoName # << >>
        /\ \A i \in 1..Len(subLog) :
            IF i % 2 = 1
            THEN /\ subLog[i].ev = "call"
                 /\ i > 1 => Follows(subLog[i - 1], subLog[i])
            ELSE /\ subLog[i].ev \in {"resolved", "rejected"}
                 /\ subLog[i].fn = subLog[i - 1].fn
        /\ subPc # "done" => Len(subLog) % 2 = 1

C13_Witness ==
    /\ subSource.type = "clone"
    /\ subPc = "done"
    /\ subResult = Returned
    /\ Len(subLog) = 12
    /\ subLog[5].fn = "createProject"
    /\ subLog[9].fn = "cloneToWorkspace"
    /\ subLog[11].fn = "openDevelopmentWorkspace"

CallsTo(fn) ==
    {i \in 1..Len(subLog) : subLog[i].ev = "call" /\ subLog[i].fn = fn}

\* The submission failed at a step before openDevelopmentWorkspace.
FailedBeforeOpen ==
    /\ subPc = "done"
    /\ subResult.kind = "thrown"
    /\ subLog # << >> => subLog[Len(subLog)].fn # "openDevelopmentWorkspace"

\* C14: in each of the three variants, a submission that returned has made
\* exactly one createDevelopmentWorkspace call and, after it, exactly one
\* openDevelopmentWorkspace call, for the workspace that request resolved
\* with; a submission that failed before openDevelopmentWorkspace has not
\* called it; no submission makes a second createDevelopmentWorkspace call.
C14_OneWorkspaceOpened ==
    /\ Cardinality(CallsTo("createDevelopmentWorkspace")) <= 1
    /\ FailedBeforeOpen => CallsTo("openDevelopmentWorkspace") = {}
    /\ (subPc = "done" /\ subResult = Returned) =>
            /\ subSource.type \in {"empty", "linked", "clone"}
            /\ Cardinality(CallsTo("createDevelopmentWorkspace")) = 1
            /\ Cardinality(CallsTo("openDevelopmentWorkspace")) = 1
            /\ \A c \in CallsTo("createDevelopmentWorkspace"),
                  o \in CallsTo("openDevelopmentWorkspace") :
                    /\ c + 1 < o
                    /\ subLog[c + 1].ev = "resolved"
                    /\ subLog[c + 1].fn = "createDevelopmentWorkspace"
                    /\ subLog[c + 1].arg.workspace = subLog[o].arg.workspace

C14_Witness ==
    /\ subSource.type = "linked"
    /\ subPc = "done"
    /\ subResult = Returned
    /\ subLog[2].arg.workspace = "ws-2"
    /\ subLog[3] = Called("openDevelopmentWorkspace", [workspace |-> "ws-2"])

\* The failures of getProject that are not a not-found result.
LookupFailures ==
    {i \in 1..Len(subLog) :
        /\ subLog[i].ev = "rejected"
        /\ subLog[i].fn = "getProject"
        /\ subLog[i].arg.err.statusCode # 404}

\* C15: when getProject fails with an error whose statusCode is not 404,
\* submit fails with that same error and the submission calls nothing more:
\* no createProject, createDevelopmentWorkspace, cloneToWorkspace or
\* openDevelopmentWorkspace, and no second getProject.
C15_LookupFailurePropagates ==
    \A i \in LookupFailures :
        /\ i = Len(subLog)
        /\ subPc = "done"
        /\ subResult = Thrown(subLog[i].arg.err)
        /\ ProvisioningCalls = {}
        /\ Cardinality(CallsTo("getProject")) = 1

C15_Witness ==
    /\ subPc = "done"
    /\ LookupFailures = {4}
    /\ subResult.err.statusCode = 500

(***************************************************************************)
(* Properties of CawsCreateWebview.editSetting                            *)
(***************************************************************************)

\* C12: editSetting(settings, key) returns the settings unchanged when the
\* prompter is cancelled or answers with an invalid response; for a valid
\* response it returns settings in which the field named by key is the
\* response and every other field is as in the input.  The prompter is the
\* one of the key, seeded with the field's current value, for each of the
\* four keys.
C12_OneFieldReplaced ==
    /\ editPc # "idle" =>
            /\ editArgs.key \in SettingKeys
            /\ editPrompter.factory = PrompterFor(editArgs.key)
            /\ editPrompter.recentItem.value = editArgs.settings[editArgs.key]
    /\ editPc = "done" =>
            IF editResponse.kind = "value"
            THEN /\ DOMAIN editResult = DOMAIN editArgs.settings
                 /\ editResult[editArgs.key] = editResponse.item.value
                 /\ \A k \in SettingKeys \ {editArgs.key} :
                        editResult[k] = editArgs.settings[k]
            ELSE editResult = editArgs.settings

C12_Witness ==
    /\ editPc = "done"
    /\ editArgs.key = "inactivityTimeoutMinutes"
    /\ editResponse.kind = "value"
    /\ editResult.inactivityTimeoutMinutes = 30
    /\ editArgs.settings.inactivityTimeoutMinutes = 15

(***************************************************************************)
(* Specifications.  The handler, the panel singleton, submit and           *)
(* editSetting share no variable, so each is also checked on its own, the  *)
(* others at rest.                                                         *)
(***************************************************************************)
Init == InitFollowUp /\ InitPanel /\ InitSubmit /\ InitEdit

Next == NextFollowUp \/ NextPanel \/ NextSubmit \/ NextEdit \/ NextSteps

Spec == Init /\ [][Next]_vars

SpecFollowUp == Init /\ [][NextFollowUp]_vars

SpecPanel == Init /\ [][NextPanel]_vars

SpecSubmit == Init /\ [][NextSubmit]_vars

SpecEdit == Init /\ [][NextEdit]_vars

SpecSteps == Init /\ [][NextSteps]_vars
====
